---- MODULE Spec2Model ----
(***************************************************************************)
(* A model of alburnum.maas.flesh: the command dispatcher (main), the      *)
(* login command's credential resolution, the profile store it writes,     *)
(* and the polling loops of launch-node and release-node.                  *)
(*                                                                         *)
(* Strings whose characters matter (URLs, user names, passwords) are       *)
(* sequences of one-character strings.  Python's None is the record None,  *)
(* any other value v of an optional is Some(v).                            *)
(* Time is counted in ticks, TicksPerSecond ticks to the second.           *)
(***************************************************************************)
EXTENDS Integers, Sequences, FiniteSets, TLC

VARIABLES
    pc,          \* position of the process in main() and the selected command
    options,     \* the argparse namespace of this invocation
    exitStatus,  \* -1 while the process runs, else its exit status
    error,       \* the exception in flight or last raised (NoError if none)
    rendered,    \* what parser.error wrote to stderr (NoError if nothing)
    interrupted, \* whether the process was ended by a KeyboardInterrupt
    output,      \* what the command printed to stdout, in order
    config,      \* the profile store: profile name -> profile (persistent)
    runs,        \* number of invocations of the program so far
    now,         \* the clock, in ticks since the process started
    node,        \* substatus_name of the node object the command holds
    gen,         \* the retries() generator of the running polling loop
    elapsed,     \* loop variable `elapsed` of the polling loop
    remaining,   \* loop variable `remaining` of the polling loop
    wait,        \* loop variable `wait` of the polling loop
    prevRemaining, \* `remaining` of the previously yielded triple, -1 if none
    yields,      \* number of triples the generator has yielded
    sleeps,      \* number of sleep() calls of this invocation
    slept,       \* sum of the durations asked of sleep(), in ticks
    reads,       \* number of re-reads of the node inside the polling loop
    seen,        \* the states returned by the triggering call and the re-reads
    judged,      \* the state the check after the loop looked at, "none" before
    username,    \* login: local `username`
    password,    \* login: local `password`
    credentials, \* login: local `credentials`
    prompts,     \* login: number of interactive password prompts
    tokenCalls,  \* login: the (username, password) pairs given to obtain_token
    parser,      \* the argument parser: its sub-command group and commands
    refresh      \* refresh-profiles: the opened store and the names to visit

vars == <<pc, options, exitStatus, error, rendered, interrupted, output,
          config, runs, now, node, gen, elapsed, remaining, wait, prevRemaining,
          yields, sleeps, slept, reads, seen, judged, username, password,
          credentials, prompts, tokenCalls, parser, refresh>>

\* what only main() changes
mainVars == <<options, exitStatus, rendered, interrupted, runs, parser>>
\* everything but the parser
processVars == <<pc, options, exitStatus, error, rendered, interrupted, output,
                 config, refresh, runs, now, node, gen, elapsed, remaining,
                 wait, prevRemaining, yields, sleeps, slept, reads, seen,
                 judged, username, password, credentials, prompts,
                 tokenCalls>>
pollVars == <<now, node, gen, elapsed, remaining, wait, prevRemaining, yields,
              sleeps, slept, reads, seen, judged>>
loginVars == <<username, password, credentials, prompts, tokenCalls>>

----------------------------------------------------------------------------
(* Bounds of the model. *)

\* largest --wait value tried, in seconds (the smallest is -1)
MaxWait == 5
\* resolution of the clock
TicksPerSecond == 2
\* number of invocations in a row, where any command line follows any other
MaxRuns == 2
\* longest time, in ticks, that a remote call takes, that sleep() oversleeps,
\* or that passes between two readings of the clock
MaxLag == 1
\* number of times the property `subparsers` is read other than by register
MaxAccesses == 3
\* number of direct calls of add_subparsers
MaxDirectCalls == 2
\* number of invocations in a row of the commands that use the store
MaxStoreRuns == 3

----------------------------------------------------------------------------
(* Values. *)

None == [some |-> FALSE, val |-> <<>>]
Some(v) == [some |-> TRUE, val |-> v]

Min(a, b) == IF a <= b THEN a ELSE b

\* ceil(a / b) for a >= 0, b > 0
CeilDiv(a, b) == (a + b - 1) \div b

NoError == [type |-> "none", msg |-> "", cli |-> None, url |-> None]
Exc(type, msg) == [type |-> type, msg |-> msg, cli |-> None, url |-> None]

Banner(text) == [kind |-> "banner", text |-> text]
Table(substatus) == [kind |-> "table", text |-> substatus]

\* substatus names a remote node can show
NodeStates == {"Allocated", "Deploying", "Deployed", "Failed deployment",
               "Releasing", "Ready"}

ProfileNames == {"p1", "p2"}
Descriptions == {"d1", "d2"}

\* credentials = None: anonymous access
NoCreds == None

\* a stored profile
Profile(name, url, creds, description) ==
    [credentials |-> creds, description |-> description, name |-> name,
     url |-> url]

\* the store without a profile, and the store after an anonymous
\* `login p1 http://h/`
EmptyStore == [n \in {} |-> Profile(n, <<>>, NoCreds, "d1")]
StoreP1 == [n \in {"p1"} |-> Profile("p1", <<"h">>, NoCreds, "d1")]

\* refresh-profiles has not opened the store.  Once it has, `opened` is the
\* store as it was opened, `store` the store as the with block sees it and
\* `todo` the names the loop has not yet come to.
NoRefresh ==
    [open |-> FALSE, opened |-> EmptyStore, store |-> EmptyStore, todo |-> {}]

\* the second argument of utils.retries at both call sites: 1.0 second
PollInterval == 1

NoGen == [started |-> FALSE, start |-> 0, end |-> 0, timeout |-> 0,
          interval |-> 0, exhausted |-> FALSE]

----------------------------------------------------------------------------
(* The polling primitive utils.retries(timeout, interval). *)

Seconds(s) == s * TicksPerSecond

\* the generator once it has run `start = time(); end = start + timeout`
RetriesStart(timeout, interval, clock) ==
    [started |-> TRUE, start |-> clock, end |-> clock + timeout,
     timeout |-> timeout, interval |-> interval, exhausted |-> FALSE]

\* whether the generator, resumed when the clock reads t, yields once more
RetriesYields(g, t) == t < g.end

\* the triple it then yields
RetriesTriple(g, t) ==
    [elapsed |-> t - g.start,
     remaining |-> g.end - t,
     wait |-> Min(g.interval, g.end - t)]

----------------------------------------------------------------------------
(* The argument parser: ArgumentParser, Command.register, prepare_parser.   *)
(* A sub-command group is known by its number: the n-th group that          *)
(* argparse's own add_subparsers has made for the parser is group n.        *)

\* the names under which prepare_parser registers the commands, in order
CommandNames ==
    <<"login", "login-api", "logout", "list-profiles", "refresh-profiles",
      "list-nodes", "list-tags", "list-files", "list-users", "acquire-node",
      "launch-node", "release-node">>

\* ArgumentParser(...): the attribute __subparsers is not set (0), no group
\* has been made, no command is registered
NewParser ==
    [subparsers |-> 0,  \* the attribute __subparsers: a group, 0 if not set
     groups |-> 0,      \* number of groups argparse's add_subparsers made
     commands |-> {},   \* the commands added, each with the group it is in
     accesses |-> 0,    \* number of times the property subparsers was read
     direct |-> 0,      \* number of direct calls of add_subparsers
     rejected |-> 0]    \* number of those that raised NotImplementedError

\* super().add_subparsers(title="drill down"): one more group
ParentAddSubparsers(p) == [p EXCEPT !.groups = @ + 1]

\* a slip: the group is made anew each time the property is read
Subparsers_NotMemoized(p) ==
    LET q == ParentAddSubparsers(p)
    IN  [q EXCEPT !.subparsers = q.groups, !.accesses = @ + 1]

\* the property subparsers: the parser once it has been read; the value read
\* is then the attribute __subparsers
Subparsers(p) ==
    IF p.subparsers # 0
    THEN [p EXCEPT !.accesses = @ + 1]
    ELSE LET q == ParentAddSubparsers(p)
         IN  [q EXCEPT !.subparsers = q.groups, !.accesses = @ + 1]

\* add_subparsers(): raise NotImplementedError
AddSubparsers(p) == [p EXCEPT !.direct = @ + 1, !.rejected = @ + 1]

\* cls.register(parser, name): parser.subparsers.add_parser(name, ...)
Register(p, name) ==
    LET q == Subparsers(p)
    IN  [q EXCEPT !.commands = @ \cup {[name |-> name,
                                        group |-> q.subparsers]}]

RECURSIVE RegisterAll(_, _)
RegisterAll(p, names) ==
    IF names = <<>> THEN p
    ELSE RegisterAll(Register(p, Head(names)), Tail(names))

\* prepare_parser(argv)
PrepareParser == RegisterAll(NewParser, CommandNames)

Registered(p) == {c.name : c \in p.commands}

\* parser.subparsers, read by anyone
ParserAccess ==
    /\ parser.accesses - Cardinality(parser.commands) < MaxAccesses
    /\ parser' = Subparsers(parser)
    /\ UNCHANGED processVars

\* a command is registered, under a name not yet taken
ParserRegister ==
    /\ \E i \in 1 .. Len(CommandNames) :
          /\ CommandNames[i] \notin Registered(parser)
          /\ parser' = Register(parser, CommandNames[i])
    /\ UNCHANGED processVars

\* parser.add_subparsers(), called by anyone
ParserAddSubparsers ==
    /\ parser.direct < MaxDirectCalls
    /\ parser' = AddSubparsers(parser)
    /\ UNCHANGED processVars

----------------------------------------------------------------------------
(* The dispatcher: main(). *)

Running == exitStatus = -1

ResetPoll ==
    /\ now' = 0
    /\ node' = "none"
    /\ gen' = NoGen
    /\ elapsed' = 0 /\ remaining' = 0 /\ wait' = 0
    /\ prevRemaining' = -1
    /\ yields' = 0 /\ sleeps' = 0 /\ slept' = 0 /\ reads' = 0
    /\ seen' = <<>>
    /\ judged' = "none"

ResetLogin ==
    /\ username' = None /\ password' = None /\ credentials' = None
    /\ prompts' = 0
    /\ tokenCalls' = <<>>

\* a fresh process: prepare_parser, parse_args, `execute = options.execute`
StartProcess(opts) ==
    /\ ~Running
    /\ opts.cmd \in Registered(PrepareParser) \cup {"none"}
    /\ options' = opts
    /\ pc' = "call"
    /\ exitStatus' = -1
    /\ error' = NoError
    /\ rendered' = NoError
    /\ interrupted' = FALSE
    /\ output' = <<>>
    /\ ResetPoll
    /\ ResetLogin
    /\ runs' = runs + 1
    /\ parser' = PrepareParser
    /\ refresh' = NoRefresh
    /\ UNCHANGED config

\* an exception leaves the command
Raise(e) ==
    /\ error' = e
    /\ pc' = "raised"

\* execute(options) returned: main returns and the process ends with status 0
MainReturn ==
    /\ Running
    /\ pc = "returned"
    /\ pc' = "exited"
    /\ exitStatus' = 0
    /\ UNCHANGED <<options, error, rendered, interrupted, output, config,
                   refresh, runs, parser, pollVars, loginVars>>

\* `except Exception as error`: re-raise under --debug, else parser.error,
\* which writes the message and exits with status 2
MainExcept ==
    /\ Running
    /\ pc = "raised"
    /\ IF options.debug
       THEN /\ pc' = "reraised"
            /\ exitStatus' = 1
            /\ rendered' = rendered
       ELSE /\ pc' = "exited"
            /\ exitStatus' = 2
            /\ rendered' = error
    /\ UNCHANGED <<options, error, interrupted, output, config, refresh, runs,
                   parser, pollVars, loginVars>>

UsageError == Exc("UsageError", "No arguments given.")

\* a slip: the usage error raised as an exception of the command
MainNoCommand_Rehandled ==
    /\ Running
    /\ pc = "call"
    /\ options.cmd = "none"
    /\ Raise(UsageError)
    /\ UNCHANGED <<options, exitStatus, rendered, interrupted, output, config,
                   refresh, runs, parser, pollVars, loginVars>>

\* `except AttributeError: parser.error("No arguments given.")`: the message
\* is written and SystemExit(2) raised, which no except clause of main()
\* catches
MainNoCommand ==
    /\ Running
    /\ pc = "call"
    /\ options.cmd = "none"
    /\ pc' = "exited"
    /\ exitStatus' = 2
    /\ rendered' = UsageError
    /\ UNCHANGED <<options, error, interrupted, output, config, refresh, runs,
                   parser, pollVars, loginVars>>

\* the positions inside the try block of main()
InTry == {"call", "execute", "start", "release", "poll", "body", "read",
          "final", "obtain_password", "obtain_token", "save", "refresh",
          "returned"}

\* a slip: the interrupt handled as the exceptions of the command are
Interrupt_AsException ==
    /\ Running
    /\ pc \in InTry
    /\ Raise(Exc("KeyboardInterrupt", "interrupted"))
    /\ interrupted' = TRUE
    /\ UNCHANGED <<options, exitStatus, rendered, output, config, refresh,
                   runs, parser, pollVars, loginVars>>

\* `except KeyboardInterrupt: raise SystemExit(1)`
Interrupt ==
    /\ Running
    /\ pc \in InTry
    /\ pc' = "exited"
    /\ exitStatus' = 1
    /\ interrupted' = TRUE
    /\ UNCHANGED <<options, error, rendered, output, config, refresh, runs,
                   parser, pollVars, loginVars>>

----------------------------------------------------------------------------
(* Commands bound to a profile: OriginTableCommand.__call__. *)

NodeCommands == {"launch-node", "release-node"}

\* bones.SessionAPI.fromProfileName: the profile must be in the store
OriginCall ==
    /\ Running
    /\ pc = "call"
    /\ options.cmd \in NodeCommands
    /\ IF options.profile_name \in DOMAIN config
       THEN /\ pc' = "execute"
            /\ UNCHANGED error
       ELSE Raise(Exc("ProfileNotFound", "profile not found"))
    /\ UNCHANGED <<mainVars, output, config, refresh, pollVars, loginVars>>

\* a call to the remote API about the node fails after some time.  (A call
\* that succeeds answers with the node, whose substatus is then some s.)
\* Nothing reads the clock before the polling loop starts, so the calls made
\* before it are taken to be instantaneous.
RemoteFails(lag) ==
    /\ now' = now + lag
    /\ Raise(Exc("CallError", "remote call failed"))

\* the substatus of a node that acquire has just returned
AcquiredStates == {"Allocated"}

----------------------------------------------------------------------------
(* The for statement over utils.retries(timeout, interval): the generator   *)
(* is resumed (started the first time); it yields a triple, bound to the   *)
(* loop variables, or is exhausted and the loop ends.  When it starts, time *)
(* may pass between its two readings of the clock.                         *)

ForRetries(args) ==
    \E lag \in 0..(IF gen.started THEN 0 ELSE MaxLag) :
        LET g == IF gen.started
                 THEN gen
                 ELSE RetriesStart(args.timeout, args.interval, now)
            t == now + lag
        IN  /\ now' = t
            /\ IF RetriesYields(g, t)
               THEN /\ gen' = g
                    /\ elapsed' = RetriesTriple(g, t).elapsed
                    /\ remaining' = RetriesTriple(g, t).remaining
                    /\ wait' = RetriesTriple(g, t).wait
                    /\ prevRemaining' = IF yields = 0 THEN -1 ELSE remaining
                    /\ yields' = yields + 1
                    /\ pc' = "body"
               ELSE /\ gen' = [g EXCEPT !.exhausted = TRUE]
                    /\ pc' = "final"
                    /\ UNCHANGED <<elapsed, remaining, wait, prevRemaining,
                                   yields>>

\* sleep(d): at least d passes
Sleep(d) ==
    \E lag \in 0..MaxLag :
        /\ now' = now + d + lag
        /\ sleeps' = sleeps + 1
        /\ slept' = slept + d

\* a slip: a re-read that fails is taken for one that shows no change
Reread_FailureRetried ==
    \E lag \in 0..MaxLag :
        /\ reads' = reads + 1
        /\ now' = now + lag
        /\ pc' = "poll"
        /\ \/ /\ error' = Exc("CallError", "remote call failed")
              /\ UNCHANGED <<node, seen>>
           \/ \E s \in NodeStates :
                 /\ node' = s
                 /\ seen' = Append(seen, s)
                 /\ UNCHANGED error

\* origin.Node.read(system_id=node.system_id) inside a polling loop
Reread ==
    \E lag \in 0..MaxLag :
        /\ reads' = reads + 1
        /\ \/ /\ RemoteFails(lag)
              /\ UNCHANGED <<node, seen>>
           \/ \E s \in NodeStates :
                 /\ now' = now + lag
                 /\ node' = s
                 /\ seen' = Append(seen, s)
                 /\ pc' = "poll"
                 /\ UNCHANGED error

----------------------------------------------------------------------------
(* launch-node: cmd_launch_node.execute. *)

\* node = self.acquire(origin, options); print DEPLOYING and the node
LaunchAcquire ==
    /\ Running
    /\ pc = "execute"
    /\ options.cmd = "launch-node"
    /\ \/ /\ RemoteFails(0)
          /\ UNCHANGED <<node, output>>
       \/ \E s \in AcquiredStates :
             /\ now' = now
             /\ node' = s
             /\ output' = output \o <<Banner("DEPLOYING:"), Table(s)>>
             /\ pc' = "start"
             /\ UNCHANGED error
    /\ UNCHANGED <<mainVars, config, refresh, gen, elapsed, remaining, wait,
                   prevRemaining, yields, sleeps, slept, reads, seen, judged,
                   loginVars>>

\* node = node.start()
LaunchStart ==
    /\ Running
    /\ pc = "start"
    /\ \/ /\ RemoteFails(0)
          /\ UNCHANGED <<node, seen>>
       \/ \E s \in NodeStates :
             /\ now' = now
             /\ node' = s
             /\ seen' = <<s>>
             /\ pc' = "poll"
             /\ UNCHANGED error
    /\ UNCHANGED <<mainVars, output, config, refresh, gen, elapsed, remaining,
                   wait, prevRemaining, yields, sleeps, slept, reads, judged,
                   loginVars>>

\* a slip: the two arguments in the other order
LaunchRetriesArgs_Swapped ==
    [timeout |-> Seconds(PollInterval), interval |-> Seconds(options.wait)]

\* the arguments of utils.retries(options.wait, 1.0)
LaunchRetriesArgs ==
    [timeout |-> Seconds(options.wait), interval |-> Seconds(PollInterval)]

\* for elapsed, remaining, wait in utils.retries(options.wait, 1.0)
LaunchRetries ==
    /\ Running
    /\ pc = "poll"
    /\ options.cmd = "launch-node"
    /\ ForRetries(LaunchRetriesArgs)
    /\ UNCHANGED <<mainVars, error, output, config, refresh, node, sleeps,
                   slept, reads, seen, judged, loginVars>>

\* a slip: poll until the node is deployed, whatever else it shows
LaunchTransitional_NotDeployed(s) == s # "Deployed"

\* if node.substatus_name == "Deploying"
LaunchTransitional(s) == s = "Deploying"

\* a slip: the wrong loop variable
LaunchSleepArg_Elapsed == elapsed

\* the argument of sleep in the loop body
LaunchSleepArg == wait

\* sleep(wait)
LaunchSleep ==
    /\ Running
    /\ pc = "body"
    /\ options.cmd = "launch-node"
    /\ LaunchTransitional(node)
    /\ Sleep(LaunchSleepArg)
    /\ pc' = "read"
    /\ UNCHANGED <<mainVars, error, output, config, refresh, node, gen,
                   elapsed, remaining, wait, prevRemaining, yields, reads,
                   seen, judged, loginVars>>

\* node = origin.Node.read(system_id=node.system_id)
LaunchReread ==
    /\ Running
    /\ pc = "read"
    /\ options.cmd = "launch-node"
    /\ Reread
    /\ UNCHANGED <<mainVars, output, config, refresh, gen, elapsed, remaining,
                   wait, prevRemaining, yields, sleeps, slept, judged,
                   loginVars>>

\* else: break
LaunchBreak ==
    /\ Running
    /\ pc = "body"
    /\ options.cmd = "launch-node"
    /\ ~LaunchTransitional(node)
    /\ pc' = "final"
    /\ UNCHANGED <<mainVars, error, output, config, refresh, pollVars,
                   loginVars>>

\* after the loop: DEPLOYED and the node, or FAILED TO DEPLOY, the node and
\* CommandError
LaunchFinal ==
    /\ Running
    /\ pc = "final"
    /\ options.cmd = "launch-node"
    /\ IF node = "Deployed"
       THEN /\ output' = output \o <<Banner("DEPLOYED:"), Table(node)>>
            /\ pc' = "returned"
            /\ UNCHANGED error
       ELSE /\ output' = output \o <<Banner("FAILED TO DEPLOY:"), Table(node)>>
            /\ Raise(Exc("CommandError", "Node was not deployed."))
    /\ judged' = node
    /\ UNCHANGED <<mainVars, config, refresh, now, node, gen, elapsed,
                   remaining, wait, prevRemaining, yields, sleeps, slept,
                   reads, seen, loginVars>>

----------------------------------------------------------------------------
(* release-node: cmd_release_node.execute. *)

\* node = origin.Node.read(system_id=options.system_id)
ReleaseRead ==
    /\ Running
    /\ pc = "execute"
    /\ options.cmd = "release-node"
    /\ \/ /\ RemoteFails(0)
          /\ UNCHANGED node
       \/ \E s \in NodeStates :
             /\ now' = now
             /\ node' = s
             /\ pc' = "release"
             /\ UNCHANGED error
    /\ UNCHANGED <<mainVars, output, config, refresh, gen, elapsed, remaining,
                   wait, prevRemaining, yields, sleeps, slept, reads, seen,
                   judged, loginVars>>

\* node = node.release()
ReleaseRelease ==
    /\ Running
    /\ pc = "release"
    /\ \/ /\ RemoteFails(0)
          /\ UNCHANGED <<node, seen>>
       \/ \E s \in NodeStates :
             /\ now' = now
             /\ node' = s
             /\ seen' = <<s>>
             /\ pc' = "poll"
             /\ UNCHANGED error
    /\ UNCHANGED <<mainVars, output, config, refresh, gen, elapsed, remaining,
                   wait, prevRemaining, yields, sleeps, slept, reads, judged,
                   loginVars>>

\* a slip: a wait of at least one second whatever --wait says
ReleaseRetriesArgs_AtLeastOne ==
    [timeout |-> Seconds(IF options.wait < 1 THEN 1 ELSE options.wait),
     interval |-> Seconds(PollInterval)]

\* the arguments of utils.retries(options.wait, 1.0)
ReleaseRetriesArgs ==
    [timeout |-> Seconds(options.wait), interval |-> Seconds(PollInterval)]

\* for elapsed, remaining, wait in utils.retries(options.wait, 1.0)
ReleaseRetries ==
    /\ Running
    /\ pc = "poll"
    /\ options.cmd = "release-node"
    /\ ForRetries(ReleaseRetriesArgs)
    /\ UNCHANGED <<mainVars, error, output, config, refresh, node, sleeps,
                   slept, reads, seen, judged, loginVars>>

\* if node.substatus_name == "Releasing"
ReleaseTransitional(s) == s = "Releasing"

\* a slip: the wrong loop variable
ReleaseSleepArg_Elapsed == elapsed

\* the argument of sleep in the loop body
ReleaseSleepArg == wait

\* a slip: the sleep is for the whole interval, whatever remains
ReleaseSleep_WholeInterval ==
    /\ Running
    /\ pc = "body"
    /\ options.cmd = "release-node"
    /\ ReleaseTransitional(node)
    /\ Sleep(Seconds(PollInterval))
    /\ pc' = "read"
    /\ UNCHANGED <<mainVars, error, output, config, refresh, node, gen,
                   elapsed, remaining, wait, prevRemaining, yields, reads,
                   seen, judged, loginVars>>

\* sleep(wait)
ReleaseSleep ==
    /\ Running
    /\ pc = "body"
    /\ options.cmd = "release-node"
    /\ ReleaseTransitional(node)
    /\ Sleep(ReleaseSleepArg)
    /\ pc' = "read"
    /\ UNCHANGED <<mainVars, error, output, config, refresh, node, gen,
                   elapsed, remaining, wait, prevRemaining, yields, reads,
                   seen, judged, loginVars>>

\* node = origin.Node.read(system_id=node.system_id)
ReleaseReread ==
    /\ Running
    /\ pc = "read"
    /\ options.cmd = "release-node"
    /\ Reread
    /\ UNCHANGED <<mainVars, output, config, refresh, gen, elapsed, remaining,
                   wait, prevRemaining, yields, sleeps, slept, judged,
                   loginVars>>

\* else: break
ReleaseBreak ==
    /\ Running
    /\ pc = "body"
    /\ options.cmd = "release-node"
    /\ ~ReleaseTransitional(node)
    /\ pc' = "final"
    /\ UNCHANGED <<mainVars, error, output, config, refresh, pollVars,
                   loginVars>>

\* a slip: the check made before the node is printed
ReleaseFinal_RaiseFirst ==
    /\ Running
    /\ pc = "final"
    /\ options.cmd = "release-node"
    /\ IF node # "Ready"
       THEN /\ Raise(Exc("CommandError", "Node was not released."))
            /\ UNCHANGED output
       ELSE /\ output' = Append(output, Table(node))
            /\ pc' = "returned"
            /\ UNCHANGED error
    /\ judged' = node
    /\ UNCHANGED <<mainVars, config, refresh, now, node, gen, elapsed,
                   remaining, wait, prevRemaining, yields, sleeps, slept,
                   reads, seen, loginVars>>

\* after the loop: print the node, then CommandError unless it is Ready
ReleaseFinal ==
    /\ Running
    /\ pc = "final"
    /\ options.cmd = "release-node"
    /\ output' = Append(output, Table(node))
    /\ IF node # "Ready"
       THEN Raise(Exc("CommandError", "Node was not released."))
       ELSE /\ pc' = "returned"
            /\ UNCHANGED error
    /\ judged' = node
    /\ UNCHANGED <<mainVars, config, refresh, now, node, gen, elapsed,
                   remaining, wait, prevRemaining, yields, sleeps, slept,
                   reads, seen, loginVars>>

----------------------------------------------------------------------------
(* The program invoked with launch-node and release-node command lines      *)
(* against a store that holds the profile p1.                              *)

DefaultOptions ==
    [cmd |-> "none", debug |-> FALSE, profile_name |-> "p1", wait |-> 0,
     url |-> <<>>, username |-> None, password |-> None,
     credentials |-> None]

WaitValues == -1 .. MaxWait

NodeOptions ==
    { [DefaultOptions EXCEPT !.cmd = c, !.debug = d, !.profile_name = p,
                             !.wait = w] :
        c \in NodeCommands, d \in BOOLEAN, p \in ProfileNames,
        w \in WaitValues }

\* no process: before the first invocation, and between two
Idle ==
    /\ pc = "idle"
    /\ options = DefaultOptions
    /\ exitStatus = 0
    /\ error = NoError
    /\ rendered = NoError
    /\ interrupted = FALSE
    /\ output = <<>>
    /\ now = 0
    /\ node = "none"
    /\ gen = NoGen
    /\ elapsed = 0 /\ remaining = 0 /\ wait = 0
    /\ prevRemaining = -1
    /\ yields = 0 /\ sleeps = 0 /\ slept = 0 /\ reads = 0
    /\ seen = <<>>
    /\ judged = "none"
    /\ username = None /\ password = None /\ credentials = None
    /\ prompts = 0
    /\ tokenCalls = <<>>
    /\ parser = NewParser
    /\ refresh = NoRefresh

InitNode ==
    /\ Idle
    /\ runs = 0
    /\ config = StoreP1

\* one invocation: node commands leave the store as it is
MainNode ==
    /\ pc = "idle"
    /\ \E opts \in NodeOptions : StartProcess(opts)

NextNode ==
    \/ MainNode
    \/ OriginCall
    \/ LaunchAcquire
    \/ LaunchStart
    \/ LaunchRetries
    \/ LaunchSleep
    \/ LaunchReread
    \/ LaunchBreak
    \/ LaunchFinal
    \/ ReleaseRead
    \/ ReleaseRelease
    \/ ReleaseRetries
    \/ ReleaseSleep
    \/ ReleaseReread
    \/ ReleaseBreak
    \/ ReleaseFinal
    \/ MainReturn
    \/ MainExcept
    \/ Interrupt

SpecNode == InitNode /\ [][NextNode]_vars

----------------------------------------------------------------------------
(* login: cmd_login.__call__ and cmd_login_base.save_profile.              *)
(* options.url is modelled by its network location, the part between       *)
(* "http://" and the path, which is where a user name and a password are   *)
(* embedded.                                                               *)

Max(S) == CHOOSE x \in S : \A y \in S : y <= x
MinOf(S) == CHOOSE x \in S : \A y \in S : x <= y

\* the index of the last (first) c in the string s, 0 if there is none
LastIndex(s, c) ==
    LET I == {i \in 1 .. Len(s) : s[i] = c} IN IF I = {} THEN 0 ELSE Max(I)
FirstIndex(s, c) ==
    LET I == {i \in 1 .. Len(s) : s[i] = c} IN IF I = {} THEN 0 ELSE MinOf(I)

\* urlparse: the user information is what precedes the last "@" of the
\* network location, None without "@"
Userinfo(netloc) ==
    LET at == LastIndex(netloc, "@")
    IN  IF at = 0 THEN None ELSE Some(SubSeq(netloc, 1, at - 1))

\* urlparse(...).username: the user information up to its first ":"
UrlUsername(netloc) ==
    LET info == Userinfo(netloc)
        colon == FirstIndex(info.val, ":")
    IN  IF ~info.some THEN None
        ELSE IF colon = 0 THEN info
        ELSE Some(SubSeq(info.val, 1, colon - 1))

\* urlparse(...).password: what follows that ":", None without ":"
UrlPassword(netloc) ==
    LET info == Userinfo(netloc)
        colon == FirstIndex(info.val, ":")
    IN  IF ~info.some THEN None
        ELSE IF colon = 0 THEN None
        ELSE Some(SubSeq(info.val, colon + 1, Len(info.val)))

\* a slip: values that are equal are not held to conflict
Conflicts_OnlyIfDifferent(cli, inurl) ==
    cli.some /\ inurl.some /\ Len(inurl.val) # 0 /\ cli # inurl

\* a value on the command line and a non-empty one in the URL
Conflicts(cli, inurl) == cli.some /\ inurl.some /\ Len(inurl.val) # 0

\* the value taken when there is no conflict
Reconcile(cli, inurl) == IF cli.some THEN cli ELSE inurl

ConflictError(field, cli, inurl) ==
    [type |-> "CommandError",
     msg |-> field \o " provided on command-line and in URL; provide only one.",
     cli |-> cli, url |-> inurl]

MissingUsernameError ==
    Exc("CommandError",
        "Password provided without username; specify username.")

\* a slip: the test of the password the wrong way round
Resolution_Inverted(u, p) ==
    IF ~u.some
    THEN IF p.some /\ Len(p.val) # 0 THEN "anonymous" ELSE "missing_username"
    ELSE "obtain"

\* what follows from the reconciled user name and password
Resolution(u, p) ==
    IF ~u.some
    THEN IF ~p.some \/ Len(p.val) = 0 THEN "anonymous" ELSE "missing_username"
    ELSE "obtain"

\* url = urlparse(options.url) up to the choice between anonymous access, an
\* error and obtaining a token
LoginResolve ==
    /\ Running
    /\ pc = "call"
    /\ options.cmd = "login"
    /\ LET url_username == UrlUsername(options.url)
           url_password == UrlPassword(options.url)
           u == Reconcile(options.username, url_username)
           p == Reconcile(options.password, url_password)
       IN  IF Conflicts(options.username, url_username)
           THEN /\ Raise(ConflictError("Username", options.username,
                                       url_username))
                /\ UNCHANGED <<username, password>>
           ELSE IF Conflicts(options.password, url_password)
           THEN /\ Raise(ConflictError("Password", options.password,
                                       url_password))
                /\ username' = u
                /\ UNCHANGED password
           ELSE /\ username' = u
                /\ password' = p
                /\ IF Resolution(u, p) = "anonymous"
                   THEN /\ pc' = "save"
                        /\ UNCHANGED error
                   ELSE IF Resolution(u, p) = "missing_username"
                   THEN Raise(MissingUsernameError)
                   ELSE /\ pc' = "obtain_password"
                        /\ UNCHANGED error
    /\ credentials' = None
    /\ UNCHANGED <<mainVars, output, config, refresh, pollVars, prompts,
                   tokenCalls>>

\* what an interactive prompt for the password can yield: nothing, or a
\* password, which may be empty
PromptResults == {None, Some(<<>>), Some(<<"s">>)}

\* what a line read from standard input can be
StdinResults == {Some(<<>>), Some(<<"s">>)}

\* utils.auth.obtain_password: a password that is given is returned as it
\* is, "-" stands for a line of standard input, and None is prompted for
ObtainPasswordResults(pw) ==
    IF ~pw.some THEN PromptResults
    ELSE IF pw = Some(<<"-">>) THEN StdinResults
    ELSE {pw}

\* a slip: the password is not tested before it is used
LoginObtainPassword_Unchecked ==
    /\ Running
    /\ pc = "obtain_password"
    /\ \E r \in ObtainPasswordResults(password) :
          /\ password' = r
          /\ pc' = "obtain_token"
          /\ UNCHANGED error
    /\ prompts' = IF password.some THEN prompts ELSE prompts + 1
    /\ UNCHANGED <<mainVars, output, config, refresh, pollVars, username,
                   credentials, tokenCalls>>

\* password = obtain_password(password); if password is None: raise
LoginObtainPassword ==
    /\ Running
    /\ pc = "obtain_password"
    /\ \E r \in ObtainPasswordResults(password) :
          /\ password' = r
          /\ IF ~r.some
             THEN Raise(Exc("CommandError", "No password supplied."))
             ELSE /\ pc' = "obtain_token"
                  /\ UNCHANGED error
    /\ prompts' = IF password.some THEN prompts ELSE prompts + 1
    /\ UNCHANGED <<mainVars, output, config, refresh, pollVars, username,
                   credentials, tokenCalls>>

\* a token: its three parts, each a string, as the parts of a key are
ServerToken == << <<"c", "k">>, <<"t", "k">>, <<"t", "s">> >>

\* the tokens the server hands out: consumer key, token key, token secret
Tokens == {ServerToken}

TokenCall(url, u, p) == [url |-> url, username |-> u, password |-> p]

\* credentials = obtain_token(options.url, username, password): the exchange
\* fails or returns a token
LoginObtainToken ==
    /\ Running
    /\ pc = "obtain_token"
    /\ tokenCalls' = Append(tokenCalls,
                            TokenCall(options.url, username, password))
    /\ \/ /\ Raise(Exc("CallError", "remote call failed"))
          /\ UNCHANGED credentials
       \/ \E t \in Tokens :
             /\ credentials' = Some(t)
             /\ pc' = "save"
             /\ UNCHANGED error
    /\ UNCHANGED <<mainVars, output, config, refresh, pollVars, username,
                   password, prompts>>

\* check_valid_apikey
CheckValidApikey(url, creds) == TRUE

WhatsNext(profile) == [kind |-> "whats_next", text |-> profile.name]

\* a slip: the store written with this profile alone
Store_Alone(cfg, name, profile) == [n \in {name} |-> profile]

\* the store with config[name] = profile
Store(cfg, name, profile) ==
    [n \in DOMAIN cfg \cup {name} |-> IF n = name THEN profile ELSE cfg[n]]

\* a slip: the profile is put in the store before the session is established
LoginSave_WriteFirst ==
    /\ Running
    /\ pc = "save"
    /\ \E d \in Descriptions :
          LET profile == Profile(options.profile_name, options.url,
                                 credentials, d)
          IN  /\ config' = Store(config, options.profile_name, profile)
              /\ \/ /\ Raise(Exc("SessionError", "no session"))
                    /\ UNCHANGED output
                 \/ /\ output' = Append(output, WhatsNext(profile))
                    /\ pc' = "returned"
                    /\ UNCHANGED error
    /\ UNCHANGED <<options, exitStatus, rendered, interrupted, runs, parser,
                   pollVars, loginVars, refresh>>

\* self.save_profile(options, credentials); self.print_whats_next(profile):
\* a rejected key ends the process (SystemExit with a message: status 1);
\* establishing the session fails or gives the description that is saved
LoginSave ==
    /\ Running
    /\ pc = "save"
    /\ IF credentials.some /\ ~CheckValidApikey(options.url, credentials)
       THEN /\ pc' = "exited"
            /\ exitStatus' = 1
            /\ rendered' = Exc("SystemExit",
                               "The MAAS server rejected your API key.")
            /\ UNCHANGED <<error, output, config>>
       ELSE /\ \/ /\ Raise(Exc("SessionError", "no session"))
                  /\ UNCHANGED <<output, config>>
               \/ \E d \in Descriptions :
                     LET profile == Profile(options.profile_name, options.url,
                                            credentials, d)
                     IN  /\ config' = Store(config, options.profile_name,
                                            profile)
                         /\ output' = Append(output, WhatsNext(profile))
                         /\ pc' = "returned"
                         /\ UNCHANGED error
            /\ UNCHANGED <<exitStatus, rendered>>
    /\ UNCHANGED <<options, interrupted, runs, parser, pollVars, loginVars,
                   refresh>>

----------------------------------------------------------------------------
(* login-api: cmd_login_api.__call__.  An API key is a string of three     *)
(* parts separated by colons.                                              *)

\* str.split(sep): the parts of s between the separators
RECURSIVE Split(_, _)
Split(s, sep) ==
    LET i == FirstIndex(s, sep)
    IN  IF i = 0
        THEN <<s>>
        ELSE <<SubSeq(s, 1, i - 1)>> \o Split(SubSeq(s, i + 1, Len(s)), sep)

\* the key as credentials: its three parts, None if it has not three
ParseCredentials(key) ==
    LET parts == Split(key, ":")
    IN  IF Len(parts) = 3 THEN Some(parts) ELSE None

\* what is typed at the prompt for the key, or read from standard input:
\* nothing, a key, or a part of one
KeyLines == {<<>>, <<"c", ":", "t", ":", "s">>, <<"c", ":", "t">>}

\* utils.auth.obtain_credentials: the key is the one given, for "-" a line
\* of standard input, and without one it is prompted for; the result is the
\* credentials parsed from it, None standing for the failure to get any
ObtainCredentialsResults(key) ==
    IF ~key.some \/ key = Some(<<"-">>)
    THEN {ParseCredentials(line) : line \in KeyLines}
    ELSE {ParseCredentials(key.val)}

\* credentials = obtain_credentials(options.credentials)
LoginApiObtain ==
    /\ Running
    /\ pc = "call"
    /\ options.cmd = "login-api"
    /\ \E r \in ObtainCredentialsResults(options.credentials) :
          IF ~r.some
          THEN /\ Raise(Exc("CredentialsError", "no credentials"))
               /\ UNCHANGED credentials
          ELSE /\ credentials' = r
               /\ pc' = "save"
               /\ UNCHANGED error
    /\ prompts' = IF options.credentials.some THEN prompts ELSE prompts + 1
    /\ UNCHANGED <<mainVars, output, config, refresh, pollVars, username,
                   password, tokenCalls>>

CliKeys ==
    {None, Some(<<"-">>), Some(<<"c", ":", "t", ":", "s">>),
     Some(<<"c", ":", "t">>)}

LoginApiOptions ==
    { [DefaultOptions EXCEPT !.cmd = "login-api", !.debug = d,
                             !.profile_name = n, !.url = <<"h">>,
                             !.credentials = k] :
        d \in BOOLEAN, n \in ProfileNames, k \in CliKeys }

----------------------------------------------------------------------------
(* logout and refresh-profiles: cmd_logout.__call__ and                    *)
(* cmd_refresh_profiles.__call__.                                          *)

\* the store after del config[name]
Remove(cfg, name) == [n \in DOMAIN cfg \ {name} |-> cfg[n]]

\* with utils.ProfileConfig.open() as config: del config[profile_name].
\* Deleting a name that is not in the store raises KeyError or does nothing.
Logout ==
    /\ Running
    /\ pc = "call"
    /\ options.cmd = "logout"
    /\ \/ /\ config' = Remove(config, options.profile_name)
          /\ pc' = "returned"
          /\ UNCHANGED error
       \/ /\ options.profile_name \notin DOMAIN config
          /\ Raise(Exc("KeyError", "no such profile"))
          /\ UNCHANGED config
    /\ UNCHANGED <<mainVars, output, refresh, pollVars, loginVars>>

\* what the store holds when the with block of ProfileConfig.open() is left:
\* the store as the block has changed it if it is left normally, the store
\* as it was opened if it is left by an exception
Commit(opened, changed, clean) == IF clean THEN changed ELSE opened

\* with utils.ProfileConfig.open() as config: for profile_name in config
RefreshOpen ==
    /\ Running
    /\ pc = "call"
    /\ options.cmd = "refresh-profiles"
    /\ refresh' = [open |-> TRUE, opened |-> config, store |-> config,
                   todo |-> DOMAIN config]
    /\ pc' = "refresh"
    /\ UNCHANGED <<mainVars, error, output, config, pollVars, loginVars>>

\* a slip: the profile made anew, as by an anonymous login
Refreshed_Rebuilt(profile, description) ==
    Profile(profile.name, profile.url, NoCreds, description)

\* profile["description"] = session.description
Refreshed(profile, description) ==
    [profile EXCEPT !.description = description]

\* Credentials(*creds): the three parts of creds as arguments; None cannot
\* be unpacked
CanUnpack(creds) == creds.some

\* the body of the loop, for the next profile name: Credentials(*creds)
\* raises TypeError, or establishing the session fails, or the profile is
\* put back with the description of the session
RefreshProfile ==
    /\ Running
    /\ pc = "refresh"
    /\ \E n \in refresh.todo :
          LET profile == refresh.store[n]
          IN  IF ~CanUnpack(profile.credentials)
              THEN /\ Raise(Exc("TypeError", "cannot unpack None"))
                   /\ UNCHANGED refresh
              ELSE \/ /\ Raise(Exc("SessionError", "no session"))
                      /\ UNCHANGED refresh
                   \/ \E d \in Descriptions :
                         /\ refresh' =
                              [refresh EXCEPT
                                 !.store = Store(@, n, Refreshed(profile, d)),
                                 !.todo = @ \ {n}]
                         /\ UNCHANGED <<pc, error>>
    /\ config' = Commit(config, refresh.store, FALSE)
    /\ UNCHANGED <<mainVars, output, pollVars, loginVars>>

\* the loop has visited every name: the with block is left and the command
\* returns
RefreshClose ==
    /\ Running
    /\ pc = "refresh"
    /\ refresh.todo = {}
    /\ config' = Commit(config, refresh.store, TRUE)
    /\ pc' = "returned"
    /\ UNCHANGED <<mainVars, error, output, refresh, pollVars, loginVars>>

LogoutOptions ==
    { [DefaultOptions EXCEPT !.cmd = "logout", !.debug = d,
                             !.profile_name = n] :
        d \in BOOLEAN, n \in ProfileNames }

RefreshOptions ==
    { [DefaultOptions EXCEPT !.cmd = "refresh-profiles", !.debug = d] :
        d \in BOOLEAN }

\* the command line that names no command
NoCommandOptions == { [DefaultOptions EXCEPT !.debug = d] : d \in BOOLEAN }

----------------------------------------------------------------------------
(* The program invoked with a login command line, against an empty store   *)
(* or a store that holds the profile p1.                                   *)

\* network locations: without user information, and with each shape of it
Urls ==
    { <<"h">>, <<"@", "h">>, <<"u", "@", "h">>, <<":", "p", "@", "h">>,
      <<"u", ":", "p", "@", "h">>, <<"u", ":", "@", "h">>,
      <<":", "@", "h">> }

CliUsernames == {None, Some(<<>>), Some(<<"a">>), Some(<<"u">>)}
CliPasswords ==
    {None, Some(<<>>), Some(<<"-">>), Some(<<"s">>), Some(<<"p">>)}

\* username and password are positional and optional, in this order: a
\* password is given only after a user name
LoginOptions ==
    { o \in { [DefaultOptions EXCEPT !.cmd = "login", !.debug = d,
                                     !.profile_name = n, !.url = l,
                                     !.username = u, !.password = p] :
                d \in BOOLEAN, n \in ProfileNames, l \in Urls,
                u \in CliUsernames, p \in CliPasswords } :
        o.password.some => o.username.some }

LoginStores == {EmptyStore, StoreP1}

InitLogin ==
    /\ Idle
    /\ runs = 0
    /\ config \in LoginStores

MainLogin ==
    /\ pc = "idle"
    /\ \E opts \in LoginOptions : StartProcess(opts)

NextLogin ==
    \/ MainLogin
    \/ LoginResolve
    \/ LoginObtainPassword
    \/ LoginObtainToken
    \/ LoginSave
    \/ MainReturn
    \/ MainExcept
    \/ Interrupt

SpecLogin == InitLogin /\ [][NextLogin]_vars

\* the steps of the running command and of main() after it: the single
\* thread goes on; sleep and the remote calls return
StepNode ==
    \/ OriginCall
    \/ LaunchAcquire \/ LaunchStart \/ LaunchRetries \/ LaunchSleep
    \/ LaunchReread \/ LaunchBreak \/ LaunchFinal
    \/ ReleaseRead \/ ReleaseRelease \/ ReleaseRetries \/ ReleaseSleep
    \/ ReleaseReread \/ ReleaseBreak \/ ReleaseFinal
    \/ MainReturn \/ MainExcept

FairSpecNode == SpecNode /\ WF_vars(StepNode)

----------------------------------------------------------------------------
(* One invocation of the program, with any of the command lines, against a *)
(* store that holds one profile.                                           *)

\* the store after `login p2 http://u:p@h/`
StoreP2 ==
    [n \in {"p2"} |->
        Profile("p2", <<"u", ":", "p", "@", "h">>, Some(ServerToken),
                "d1")]

OnceStores == {StoreP1, StoreP2}

AllOptions ==
    LoginOptions \cup LoginApiOptions \cup LogoutOptions \cup RefreshOptions
        \cup NodeOptions \cup NoCommandOptions

InitOnce ==
    /\ Idle
    /\ runs = 0
    /\ config \in OnceStores

MainOnce ==
    /\ pc = "idle"
    /\ \E opts \in AllOptions : StartProcess(opts)

NextOnce ==
    \/ MainOnce
    \/ MainNoCommand
    \/ LoginResolve
    \/ LoginObtainPassword
    \/ LoginObtainToken
    \/ LoginApiObtain
    \/ LoginSave
    \/ Logout
    \/ RefreshOpen
    \/ RefreshProfile
    \/ RefreshClose
    \/ OriginCall
    \/ LaunchAcquire
    \/ LaunchStart
    \/ LaunchRetries
    \/ LaunchSleep
    \/ LaunchReread
    \/ LaunchBreak
    \/ LaunchFinal
    \/ ReleaseRead
    \/ ReleaseRelease
    \/ ReleaseRetries
    \/ ReleaseSleep
    \/ ReleaseReread
    \/ ReleaseBreak
    \/ ReleaseFinal
    \/ MainReturn
    \/ MainExcept
    \/ Interrupt

SpecOnce == InitOnce /\ [][NextOnce]_vars

----------------------------------------------------------------------------
(* The parser on its own: the property is read, commands are registered    *)
(* and add_subparsers is called, in any order.                             *)

InitParser ==
    /\ Idle
    /\ runs = 0
    /\ config = EmptyStore

NextParser ==
    \/ ParserAccess
    \/ ParserRegister
    \/ ParserAddSubparsers

SpecParser == InitParser /\ [][NextParser]_vars

----------------------------------------------------------------------------
(* The program as a whole: one invocation after the other, each with any   *)
(* of the command lines, the first one against an empty store.             *)

Init ==
    /\ Idle
    /\ runs = 0
    /\ config = EmptyStore

Main ==
    /\ pc = "idle"
    /\ runs < MaxRuns
    /\ \E opts \in AllOptions : StartProcess(opts)

\* the process has ended: nothing of it is left but the store
Reap ==
    /\ ~Running
    /\ pc # "idle"
    /\ pc' = "idle"
    /\ options' = DefaultOptions
    /\ exitStatus' = 0
    /\ error' = NoError
    /\ rendered' = NoError
    /\ interrupted' = FALSE
    /\ output' = <<>>
    /\ ResetPoll
    /\ ResetLogin
    /\ parser' = NewParser
    /\ refresh' = NoRefresh
    /\ UNCHANGED <<config, runs>>

Next ==
    \/ Main
    \/ MainNoCommand
    \/ LoginResolve
    \/ LoginObtainPassword
    \/ LoginObtainToken
    \/ LoginApiObtain
    \/ LoginSave
    \/ Logout
    \/ RefreshOpen
    \/ RefreshProfile
    \/ RefreshClose
    \/ OriginCall
    \/ LaunchAcquire
    \/ LaunchStart
    \/ LaunchRetries
    \/ LaunchSleep
    \/ LaunchReread
    \/ LaunchBreak
    \/ LaunchFinal
    \/ ReleaseRead
    \/ ReleaseRelease
    \/ ReleaseRetries
    \/ ReleaseSleep
    \/ ReleaseReread
    \/ ReleaseBreak
    \/ ReleaseFinal
    \/ MainReturn
    \/ MainExcept
    \/ Interrupt
    \/ Reap

Spec == Init /\ [][Next]_vars

----------------------------------------------------------------------------
(* Invocations that read and write the store, one after the other: login,  *)
(* login-api, logout and refresh-profiles.                                 *)

StoreOptions ==
    { o \in LoginOptions \cup LoginApiOptions \cup LogoutOptions
               \cup RefreshOptions :
        /\ ~o.debug
        /\ o.cmd = "login" =>
              /\ ~o.username.some
              /\ o.url \in {<<"h">>, <<"u", ":", "p", "@", "h">>}
        /\ o.cmd = "login-api" =>
              o.credentials = Some(<<"c", ":", "t", ":", "s">>) }

InitStore ==
    /\ Idle
    /\ runs = 0
    /\ config \in LoginStores

MainStore ==
    /\ pc = "idle"
    /\ runs < MaxStoreRuns
    /\ \E opts \in StoreOptions : StartProcess(opts)

NextStore ==
    \/ MainStore
    \/ LoginResolve
    \/ LoginObtainPassword
    \/ LoginObtainToken
    \/ LoginApiObtain
    \/ LoginSave
    \/ Logout
    \/ RefreshOpen
    \/ RefreshProfile
    \/ RefreshClose
    \/ MainReturn
    \/ MainExcept
    \/ Interrupt
    \/ Reap

SpecStore == InitStore /\ [][NextStore]_vars

----------------------------------------------------------------------------
(* The polling loops: claims C1 to C6. *)

IsNodeCommand == options.cmd \in NodeCommands

\* the --wait value, as a duration
Timeout == Seconds(options.wait)

\* the state the command waits for
Target == IF options.cmd = "launch-node" THEN "Deployed" ELSE "Ready"

Last(q) == q[Len(q)]

\* C1: in launch-node and release-node, every triple the loop receives has
\* elapsed + remaining equal to the --wait value.
C1_ElapsedPlusRemainingIsTimeout ==
    (IsNodeCommand /\ yields > 0) =>
        /\ options.wait > 0
        /\ elapsed + remaining = Timeout

C1_Witness ==
    /\ options.cmd = "launch-node"
    /\ yields >= 3
    /\ reads >= 2
    /\ elapsed > Seconds(2)
    /\ remaining > 0

\* C2: in every triple the loop receives remaining is not negative, and it
\* is smaller than in the triple before.
C2_RemainingDecreases ==
    (IsNodeCommand /\ yields > 0) =>
        /\ remaining >= 0
        /\ (yields > 1 => remaining < prevRemaining)

C2_Witness ==
    /\ options.cmd = "launch-node"
    /\ yields >= 2
    /\ prevRemaining > remaining
    /\ remaining > 0

\* ceil(T / min(I, T)) for T > 0, and 0 for T <= 0
YieldBound ==
    IF options.wait <= 0
    THEN 0
    ELSE CeilDiv(Timeout, Min(Seconds(PollInterval), Timeout))

InPollingLoop == Running /\ pc \in {"poll", "body", "read"}

\* C3: the loop receives at most ceil(T / min(I, T)) triples, none when
\* T <= 0, and the polling loop always ends, whatever the node does.
C3_BoundedAndTerminates ==
    /\ [](IsNodeCommand => yields <= YieldBound)
    /\ (InPollingLoop ~> ~InPollingLoop)

C3_Witness ==
    /\ options.cmd = "release-node"
    /\ options.wait >= 3
    /\ yields = YieldBound
    /\ gen.exhausted
    /\ node = "Releasing"

\* C4: with --wait zero or negative there is no triple, no sleep and no
\* re-read, and the check after the loop looks, once, at the state the
\* triggering call returned; release-node --wait 0 on a node that is still
\* Releasing prints it, fails and exits with status 2.
C4_NoWaitNoPolling ==
    (IsNodeCommand /\ options.wait <= 0) =>
        /\ yields = 0 /\ sleeps = 0 /\ reads = 0
        /\ (judged # "none" => (seen = <<judged>> /\ pc # "final"))
        /\ (pc = "final" => (judged = "none" /\ seen = <<node>>))
        /\ (/\ options.cmd = "release-node"
            /\ ~options.debug
            /\ judged = "Releasing"
            /\ ~Running
            => /\ exitStatus = 2
               /\ rendered.msg = "Node was not released."
               /\ output = <<Table("Releasing")>>)

C4_Witness ==
    /\ options.cmd = "release-node"
    /\ options.wait = 0
    /\ judged = "Releasing"
    /\ exitStatus = 2

\* C5: launch-node polls only as long as the node shows Deploying: a state
\* other than Deploying is followed by no sleep and no re-read; a node found
\* Deployed is printed under DEPLOYED and the process exits with status 0;
\* with --wait 5 and the node Deploying three times and then Deployed, at
\* most three seconds of sleep were asked for, and if nothing else took time
\* the generator is not exhausted.
C5_LaunchStopsAtFirstOtherState ==
    options.cmd = "launch-node" =>
        /\ \A i \in 1 .. Len(seen) - 1 : seen[i] = "Deploying"
        /\ (pc = "read" => (seen # <<>> /\ Last(seen) = "Deploying"))
        /\ ((seen # <<>> /\ Last(seen) # "Deploying") =>
              (sleeps = Len(seen) - 1 /\ reads = Len(seen) - 1))
        /\ (judged = "Deployed" =>
              /\ Len(output) = 4
              /\ SubSeq(output, 3, 4) =
                    <<Banner("DEPLOYED:"), Table("Deployed")>>
              /\ error = NoError
              /\ (~Running /\ ~interrupted => exitStatus = 0))
        /\ (/\ options.wait = 5
            /\ seen = <<"Deploying", "Deploying", "Deploying", "Deployed">>
            => /\ slept <= Seconds(3)
               /\ slept < Timeout
               /\ (now = slept => ~gen.exhausted))

C5_Witness ==
    /\ options.cmd = "launch-node"
    /\ options.wait = 5
    /\ seen = <<"Deploying", "Deploying", "Deploying", "Deployed">>
    /\ now = slept
    /\ pc = "exited"
    /\ exitStatus = 0

\* C6: when the check after the loop finds another state than the one
\* waited for, the node it looked at (the last one read) has been printed
\* last, a CommandError is raised, and the process does not end otherwise
\* than with status 2 and the error's message or, under --debug, with the
\* error raised again.
C6_FailurePrintedThenRaised ==
    (IsNodeCommand /\ judged # "none") =>
        /\ judged = Last(seen)
        /\ (judged # Target =>
              /\ output # <<>>
              /\ Last(output) = Table(judged)
              /\ (options.cmd = "launch-node" =>
                    output[Len(output) - 1] = Banner("FAILED TO DEPLOY:"))
              /\ error.type = "CommandError"
              /\ error.msg = (IF options.cmd = "launch-node"
                              THEN "Node was not deployed."
                              ELSE "Node was not released.")
              /\ pc \in {"raised", "exited", "reraised"}
              /\ (pc = "exited" => (/\ ~options.debug
                                    /\ exitStatus = 2
                                    /\ rendered = error))
              /\ (pc = "reraised" => (options.debug /\ rendered = NoError)))

C6_Witness ==
    /\ options.cmd = "launch-node"
    /\ gen.exhausted
    /\ judged = "Deploying"
    /\ exitStatus = 2

----------------------------------------------------------------------------
(* login: claims C7 to C10. *)

IsLogin == options.cmd = "login"

\* the user name and the password embedded in the URL of this invocation
url_username == UrlUsername(options.url)
url_password == UrlPassword(options.url)

UsernameConflict ==
    /\ options.username.some
    /\ url_username.some /\ Len(url_username.val) > 0
PasswordConflict ==
    /\ options.password.some
    /\ url_password.some /\ Len(url_password.val) > 0

\* the command has got as far as the prompt, the token exchange, the saving
\* of the profile or its own end
Proceeded == pc \in {"obtain_password", "obtain_token", "save", "returned"}

\* the command has ended with an exception that main() has caught
Failed ==
    \/ pc \in {"raised", "reraised"}
    \/ pc = "exited" /\ exitStatus = 2

\* no profile has been written by this invocation
NothingSaved == config \in LoginStores /\ output = <<>>

\* C7: a user name (a password) given on the command line together with a
\* non-empty one in the URL makes login fail with an error that names the
\* field and both values, whatever the values; nothing is asked, exchanged
\* or saved, and no credentials are formed.
C7_ConflictingSourcesFail ==
    (IsLogin /\ (UsernameConflict \/ PasswordConflict)) =>
        /\ ~Proceeded
        /\ prompts = 0 /\ tokenCalls = <<>> /\ credentials = None
        /\ NothingSaved
        /\ exitStatus # 0
        /\ (pc = "call" \/ interrupted \/
              /\ Failed
              /\ error =
                   IF UsernameConflict
                   THEN ConflictError("Username", options.username,
                                      url_username)
                   ELSE ConflictError("Password", options.password,
                                      url_password))

C7_Witness ==
    /\ IsLogin
    /\ options.username = Some(<<"a">>)
    /\ options.url = <<"u", ":", "p", "@", "h">>
    /\ exitStatus = 2
    /\ rendered.cli = Some(<<"a">>)
    /\ rendered.url = Some(<<"u">>)

\* the user name and the password after reconciling the sources, when they
\* do not conflict
ResolvedUsername == Reconcile(options.username, url_username)
ResolvedPassword == Reconcile(options.password, url_password)

\* C8: a user name that resolves to None or to the empty string, with a
\* non-empty password, makes login fail with the missing-username error;
\* there is no prompt, no token exchange and no profile saved.
C8_EmptyUsernameFails ==
    (/\ IsLogin
     /\ ~UsernameConflict /\ ~PasswordConflict
     /\ (~ResolvedUsername.some \/ Len(ResolvedUsername.val) = 0)
     /\ ResolvedPassword.some /\ Len(ResolvedPassword.val) > 0) =>
        /\ ~Proceeded
        /\ prompts = 0 /\ tokenCalls = <<>>
        /\ NothingSaved
        /\ (pc = "call" \/ interrupted \/
              (Failed /\ error = MissingUsernameError))

C10_PasswordPrompted ==
    (/\ IsLogin
     /\ ~UsernameConflict /\ ~PasswordConflict
     /\ ResolvedUsername.some /\ Len(ResolvedUsername.val) > 0
     /\ ~ResolvedPassword.some) =>
        /\ (prompts = 0 =>
              /\ pc \in {"call", "obtain_password", "exited"}
              /\ (pc = "exited" => interrupted)
              /\ tokenCalls = <<>> /\ NothingSaved)
        /\ (prompts # 0 =>
              /\ prompts = 1
              /\ username = ResolvedUsername
              /\ IF ~password.some
                 THEN /\ Failed
                      /\ error = Exc("CommandError", "No password supplied.")
                      /\ tokenCalls = <<>>
                      /\ NothingSaved
                 ELSE /\ (pc = "obtain_token" => tokenCalls = <<>>)
                      /\ (tokenCalls = <<>> => NothingSaved)
                      /\ (tokenCalls # <<>> =>
                            tokenCalls = <<TokenCall(options.url,
                                                     ResolvedUsername,
                                                     password)>>)
                      /\ ((pc # "obtain_token" /\ ~interrupted) =>
                            tokenCalls # <<>>))

C10_Witness ==
    /\ IsLogin
    /\ prompts = 1
    /\ tokenCalls = <<TokenCall(<<"h">>, Some(<<"a">>), Some(<<"s">>))>>
    /\ pc = "exited" /\ exitStatus = 0

----------------------------------------------------------------------------
(* Credentials: claim C11. *)

\* None, or a token of three parts
Complete(creds) == ~creds.some \/ Len(creds.val) = 3

\* C11: login and login-api form no partial credentials: the credentials
\* are None or a token of three parts, in login a token comes from a token
\* exchange that was given a user name that is not empty and a password,
\* and every profile in the store holds None or a token of three parts.
C11_NoPartialCredential ==
    /\ Complete(credentials)
    /\ \A n \in DOMAIN config : Complete(config[n].credentials)
    /\ (IsLogin /\ credentials.some) =>
          /\ tokenCalls # <<>>
          /\ Last(tokenCalls).username.some
          /\ Len(Last(tokenCalls).username.val) > 0
          /\ Last(tokenCalls).password.some

----------------------------------------------------------------------------
(* The parser: claim C12. *)

\* C12: however often the property subparsers is read and whatever commands
\* are registered, argparse's add_subparsers has been called at most once for
\* the parser, every command registered is in the one group the property
\* gives, and every direct call of add_subparsers has been rejected, without
\* a group being made.
C12_GroupCreatedOnce ==
    /\ parser.groups <= 1
    /\ parser.groups = (IF parser.accesses > 0 THEN 1 ELSE 0)
    /\ parser.subparsers = parser.groups
    /\ \A c \in parser.commands : c.group = 1
    /\ parser.accesses >= Cardinality(parser.commands)
    /\ parser.rejected = parser.direct

C12_Witness ==
    /\ Registered(parser) = {CommandNames[i] : i \in 1 .. Len(CommandNames)}
    /\ parser.accesses > Len(CommandNames)
    /\ parser.direct > 0
    /\ parser.groups = 1

----------------------------------------------------------------------------
(* The dispatcher: claims C13 to C15. *)

\* C13: an exception that leaves the command is handled by main(), once:
\* under --debug it is raised again and nothing is rendered, otherwise its
\* message is rendered and the process ends with status 2; a process whose
\* command has failed ends neither with status 0 nor with status 1.
C13_FailureHandledOnce ==
    error # NoError =>
        /\ pc \in {"raised", "reraised", "exited"}
        /\ (pc = "reraised" => (options.debug /\ rendered = NoError))
        /\ (pc = "exited" => (/\ ~options.debug
                              /\ exitStatus = 2
                              /\ rendered = error))
        /\ (~Running => exitStatus \notin {0, 1})

\* C14: an interrupt ends the process with status 1, with or without
\* --debug, and nothing is rendered; the step that handles it leaves the
\* state of the polling loop, the node, the credentials, the output and the
\* store as they are, and nothing of these changes afterwards.
C14_InterruptExitsWithOne ==
    /\ [](interrupted => (/\ pc = "exited"
                          /\ exitStatus = 1
                          /\ rendered = NoError
                          /\ error = NoError))
    /\ [][(interrupted' /\ ~interrupted) =>
            UNCHANGED <<options, error, rendered, output, config, refresh,
                        pollVars, loginVars>>]_vars
    /\ [][interrupted =>
            UNCHANGED <<exitStatus, rendered, output, config, refresh,
                        pollVars, loginVars>>]_vars

C14_Witness ==
    /\ interrupted
    /\ options.debug
    /\ options.cmd = "launch-node"
    /\ sleeps > 1
    /\ reads < sleeps
    /\ node = "Deploying"
    /\ exitStatus = 1

\* C15: a command line that names no command gets the usage error and the
\* process ends with status 2, with or without --debug; no command runs
\* and no exception is handled by main().
C15_NoCommandIsUsageError ==
    (options.cmd = "none" /\ pc # "idle") =>
        /\ pc \in {"call", "exited"}
        /\ error = NoError
        /\ output = <<>>
        /\ config \in OnceStores
        /\ ~refresh.open
        /\ node = "none" /\ seen = <<>> /\ sleeps = 0 /\ reads = 0
        /\ credentials = None /\ prompts = 0 /\ tokenCalls = <<>>
        /\ ((pc = "exited" /\ ~interrupted) =>
              (exitStatus = 2 /\ rendered = UsageError))

C15_Witness ==
    /\ options.cmd = "none"
    /\ options.debug
    /\ pc = "exited"
    /\ exitStatus = 2
    /\ rendered = UsageError

----------------------------------------------------------------------------
(* The store: claims C16 to C18. *)

IsLoginForm == options.cmd \in {"login", "login-api"}
IsRefresh == options.cmd = "refresh-profiles"

\* this invocation writes or deletes the profile n
Touches(n) ==
    /\ options.cmd \in {"login", "login-api", "logout"}
    /\ options.profile_name = n

SameButDescription(p, q) ==
    /\ p.name = q.name
    /\ p.url = q.url
    /\ p.credentials = q.credentials

\* C16: once login or login-api has saved the profile, the store holds
\* under the profile name the four fields it wrote: the name, the URL given,
\* the credentials obtained and a description of the session, whatever
\* was there before; and no step of an invocation that is not a login or
\* logout of that name removes a profile or changes it, but for the
\* description in refresh-profiles.
C16_LoginThenReadGivesWhatWasWritten ==
    /\ []((IsLoginForm /\ output # <<>>) =>
            /\ options.profile_name \in DOMAIN config
            /\ DOMAIN config[options.profile_name] =
                   {"credentials", "description", "name", "url"}
            /\ \E d \in Descriptions :
                   config[options.profile_name] =
                       Profile(options.profile_name, options.url,
                               credentials, d))
    /\ [][\A n \in DOMAIN config :
             ~Touches(n) =>
                 /\ n \in DOMAIN config'
                 /\ SameButDescription(config'[n], config[n])
                 /\ (~IsRefresh => config'[n] = config[n])]_vars

C16_Witness ==
    /\ IsRefresh
    /\ pc = "exited"
    /\ exitStatus = 0
    /\ DOMAIN config = {"p1", "p2"}
    /\ config # refresh.opened
    /\ config["p1"].url = <<"u", ":", "p", "@", "h">>
    /\ config["p1"].credentials = Some(ServerToken)
    /\ config["p2"].url = <<"h">>
    /\ Len(config["p2"].credentials.val) = 3

\* C17: refresh-profiles leaves the names in the store as they are and, of
\* every profile, the name, the URL and the credentials, both in the store
\* and in what it is about to write.
C17_RefreshChangesDescriptionOnly ==
    (IsRefresh /\ refresh.open) =>
        /\ DOMAIN config = DOMAIN refresh.opened
        /\ DOMAIN refresh.store = DOMAIN refresh.opened
        /\ \A n \in DOMAIN refresh.opened :
              /\ SameButDescription(config[n], refresh.opened[n])
              /\ SameButDescription(refresh.store[n], refresh.opened[n])
              /\ DOMAIN config[n] = DOMAIN refresh.opened[n]

C17_Witness ==
    /\ IsRefresh
    /\ pc = "exited"
    /\ exitStatus = 0
    /\ DOMAIN config = {"p1", "p2"}
    /\ config["p1"].description # refresh.opened["p1"].description
    /\ config["p2"].description # refresh.opened["p2"].description

\* C18: refresh-profiles fails only if a session cannot be established,
\* also when a profile in the store is anonymous, and when it returns it has
\* visited every profile.
C18_RefreshesAnonymousToo ==
    IsRefresh =>
        /\ error.type \in {"none", "SessionError"}
        /\ (pc = "returned" => refresh.todo = {})

----------------------------------------------------------------------------
(* The polling loops: claims C19 and C20. *)

\* the state in which the command goes on polling
Transitional == IF options.cmd = "launch-node" THEN "Deploying" ELSE "Releasing"

\* C19: in launch-node and release-node the time to wait of every triple
\* is the smaller of one second and the time remaining; every sleep is for
\* that time, so for at most a second, and all of them together for at most
\* the --wait value; there are at most as many sleeps as triples, and every
\* sleep is followed by one re-read before anything else is done, so that
\* there are as many re-reads as sleeps unless the process is interrupted
\* between the two.
C19_SleepsWithinWait ==
    /\ [](IsNodeCommand =>
            /\ (yields > 0 =>
                  wait = Min(Seconds(PollInterval), remaining))
            /\ slept <= (IF options.wait > 0 THEN Timeout ELSE 0)
            /\ slept <= sleeps * Seconds(PollInterval)
            /\ sleeps <= yields
            /\ reads <= sleeps
            /\ (reads # sleeps =>
                  /\ sleeps = reads + 1
                  /\ (pc = "read" \/ interrupted)))
    /\ [][(IsNodeCommand /\ sleeps' = sleeps + 1) =>
            /\ slept' - slept = wait
            /\ slept' - slept <= Seconds(PollInterval)
            /\ reads = sleeps
            /\ pc' = "read"]_vars
    /\ [][(IsNodeCommand /\ reads' = reads + 1) =>
            /\ pc = "read"
            /\ sleeps = reads + 1
            /\ sleeps' = sleeps]_vars

C19_Witness ==
    /\ options.cmd = "release-node"
    /\ sleeps = 3
    /\ reads = 3
    /\ wait > 0
    /\ wait < Seconds(PollInterval)
    /\ slept < Timeout
    /\ pc = "final"

\* C20: when a call to the remote API fails in launch-node or release-node,
\* the exception leaves the command: there is no sleep, no re-read and no
\* other call after it, the state after the loop is not looked at, and
\* without --debug the process ends with status 2 and the message of the
\* failure; and there is a sleep only after a call that succeeded and
\* showed the node in the state the command is waiting to pass.
C20_RemoteFailureNotRetried ==
    /\ []((IsNodeCommand /\ error.type = "CallError") =>
            /\ pc \in {"raised", "reraised", "exited"}
            /\ judged = "none"
            /\ (pc = "exited" => (/\ ~options.debug
                                  /\ exitStatus = 2
                                  /\ rendered = error)))
    /\ [][(IsNodeCommand /\ error.type = "CallError") =>
            UNCHANGED <<pollVars, output, error>>]_vars
    /\ [][(IsNodeCommand /\ sleeps' = sleeps + 1) =>
            /\ error = NoError
            /\ seen # <<>>
            /\ Last(seen) = Transitional
            /\ node = Last(seen)]_vars

C20_Witness ==
    /\ options.cmd = "launch-node"
    /\ ~options.debug
    /\ error.type = "CallError"
    /\ reads = 3
    /\ sleeps = 3
    /\ seen = <<"Deploying", "Deploying", "Deploying">>
    /\ ~gen.exhausted
    /\ exitStatus = 2

----------------------------------------------------------------------------
(* login and the store: claim C21. *)

\* C21: a login or login-api that fails leaves the store as it was: the
\* step in which an exception is raised does not change the store, and after
\* it nothing has been printed and the store is the one the invocation
\* found; the store changes only in the step that ends save_profile, with
\* no exception raised, the credentials resolved (in login a token exactly
\* when there was a token exchange), the key accepted and the session
\* established, and that step changes only the profile of the name given.
C21_FailedLoginLeavesStore ==
    /\ []((IsLoginForm /\ (error # NoError \/ exitStatus = 2)) =>
            /\ output = <<>>
            /\ config \in OnceStores)
    /\ [][(IsLoginForm /\ error' # NoError) => config' = config]_vars
    /\ [][(IsLoginForm /\ config' # config) =>
            /\ pc = "save"
            /\ pc' = "returned"
            /\ error = NoError
            /\ error' = NoError
            /\ Complete(credentials)
            /\ (IsLogin => (credentials.some <=> tokenCalls # <<>>))
            /\ (credentials.some =>
                  CheckValidApikey(options.url, credentials))
            /\ output' # output
            /\ \A n \in DOMAIN config :
                  n # options.profile_name =>
                      (n \in DOMAIN config' /\ config'[n] = config[n])]_vars

C21_Witness ==
    /\ IsLogin
    /\ options.profile_name = "p2"
    /\ tokenCalls # <<>>
    /\ credentials.some
    /\ error.type = "SessionError"
    /\ exitStatus = 2
    /\ config = StoreP2

====
